---------------------------- MODULE Spec2Model ----------------------------
(***************************************************************************)
(* The generation-session controller of frontend/script.js: the Generate   *)
(* and Stop click handlers, the PDF upload they await, and the four        *)
(* WebSocket callbacks (onopen, onmessage, onclose, onerror), together     *)
(* with the page elements they write.                                      *)
(*                                                                         *)
(* The script keeps no status variable; what the handlers leave behind is  *)
(* the state of the page (disabled controls, overlay, toast, texts) and of *)
(* the WebSocket objects.  The model keeps exactly that.  Each handler     *)
(* runs to completion as one task of the event loop, so each is one        *)
(* action; the only suspension point is the await of the upload in the     *)
(* Generate handler, which splits it in two.                               *)
(*                                                                         *)
(* The WebSocket object follows the WHATWG interface: readyState is        *)
(* CONNECTING, OPEN, CLOSING or CLOSED; message events are dispatched only *)
(* while OPEN; close() moves CONNECTING/OPEN to CLOSING; a failed          *)
(* connection fires error and then close in one task; send() throws while  *)
(* CONNECTING and discards the data while CLOSING or CLOSED.               *)
(***************************************************************************)
EXTENDS Integers, Sequences, FiniteSets, TLC

\* ------------------------------------------------------------------ bounds
MaxChannels == 2   \* WebSocket objects created in one run
MaxPending  == 1   \* Generate handlers suspended in the upload at once
MaxMsgs     == 2   \* inbound frames the server pushes in one run

\* ----------------------------------------------------------------- strings
SP == " "

\* String.prototype.trim on a sequence of characters
RECURSIVE TrimLeft(_)
TrimLeft(s) ==
    IF s = <<>> THEN <<>>
    ELSE IF Head(s) = SP THEN TrimLeft(Tail(s)) ELSE s

RECURSIVE TrimRight(_)
TrimRight(s) ==
    IF s = <<>> THEN <<>>
    ELSE IF s[Len(s)] = SP THEN TrimRight(SubSeq(s, 1, Len(s) - 1)) ELSE s

Trim(s) == TrimRight(TrimLeft(s))

\* what the form can hold when Generate is clicked: the two text inputs
\* and whether a PDF file is selected
FormValues ==
    { [topic |-> <<>>,            url |-> <<>>,        pdf |-> FALSE],
      [topic |-> <<SP>>,          url |-> <<SP, SP>>,  pdf |-> FALSE],
      [topic |-> <<SP, "d", SP>>, url |-> <<>>,        pdf |-> FALSE],
      [topic |-> <<SP>>,          url |-> <<"u", SP>>, pdf |-> TRUE] }

\* ------------------------------------------------------------ toast texts
NoToast          == ""
ValidationToast  == "Please enter a topic, a URL, or select a PDF file."
UploadOkToast    == "PDF uploaded successfully!"
UploadFailToast  == "PDF upload failed."
EstablishedToast == "Connection established. Starting generation..."
StoppedToast     == "Animation generation stopped."
SuccessToast     == "Animation generated successfully!"
ConnErrorToast   == "A connection error occurred. Please check the server logs."
StoppingToast    == "Stopping generation..."

\* ------------------------------------------------------- inbound messages
NoImages  == [present |-> FALSE, list |-> <<>>]  \* image_components undefined
Images(l) == [present |-> TRUE, list |-> l]
NoPath    == "null"                              \* pdfPath = null

Ev(st, sg, m, sc, na, tts, of, im) ==
    [status |-> st, stage |-> sg, message |-> m, script |-> sc,
     narration |-> na, tts_audio_url |-> tts, output_file |-> of,
     image_components |-> im]

Img(p, d) == [path |-> p, description |-> d]

\* the frames the server side can push; an absent or empty field is ""
Events ==
    { Ev("progress",  "Scripting", "Writing narration", "", "", "", "",
                                   NoImages),
      Ev("progress",  "",          "Rendering", "s1", "n1", "/tts/a.mp3", "",
                                   NoImages),
      Ev("progress",  "Images",    "Images ready", "", "", "", "",
                                   Images(<< Img("/i/1.png", "one"),
                                             Img("/i/2.png", "two") >>)),
      Ev("progress",  "Images",    "Images ready", "", "", "", "",
                                   Images(<<>>)),
      Ev("completed", "",          "Done", "", "", "", "/media/out.mp4",
                                   NoImages),
      Ev("error",     "Render",    "Failed", "", "", "", "", NoImages) }

\* a frame that parses but is no event of the protocol: unknown status
InvalidEvent ==
    Ev("bogus", "", "Rendering", "s1", "", "", "", NoImages)

IsTerminalEvent(data) == data.status = "error" \/ data.status = "completed"

\* ------------------------------------------------------------------- state
VARIABLES
    pending,           \* Generate handlers suspended at `await fetch`
    ws,                \* every WebSocket object created, in creation order
    socket,            \* `let socket`: index into ws, 0 while undefined
    controlsDisabled,  \* set by setControlsDisabled (inputs, both buttons)
    loading,           \* generateBtn has class 'loading'
    outputSectionHidden,
    overlayHidden,     \* statusOverlay has class 'hidden'
    outputLog,         \* outputLog.textContent, one element per line
    statusText,
    scriptOutput,
    narrationOutput,
    animationOutput,   \* src of the <video> in animationOutput, "" if none
    imageComponents,   \* imageComponentsOutput: header present, list of cards
    audioHidden,
    downloadScriptHidden,
    downloadNarrationHidden,
    toast,             \* toast.textContent
    unhandled,         \* a handler ended in an uncaught exception
    delivered          \* frames pushed by the server so far

outputs == << outputLog, scriptOutput, narrationOutput, animationOutput,
              imageComponents, audioHidden, downloadScriptHidden,
              downloadNarrationHidden >>
slots   == << scriptOutput, narrationOutput, animationOutput,
              imageComponents, audioHidden >>
page    == << controlsDisabled, loading, outputSectionHidden, overlayHidden,
              statusText, toast >>
vars    == << pending, ws, socket, outputs, page, unhandled, delivered >>

Channels == 1 .. Len(ws)

Init ==
    /\ pending = <<>>
    /\ ws = <<>>
    /\ socket = 0
    /\ controlsDisabled = FALSE
    /\ loading = FALSE
    /\ outputSectionHidden = TRUE
    /\ overlayHidden = TRUE
    /\ outputLog = <<>>
    /\ statusText = ""
    /\ scriptOutput = ""
    /\ narrationOutput = ""
    /\ animationOutput = ""
    /\ imageComponents = NoImages
    /\ audioHidden = TRUE
    /\ downloadScriptHidden = TRUE
    /\ downloadNarrationHidden = TRUE
    /\ toast = NoToast
    /\ unhandled = FALSE
    /\ delivered = 0

\* ------------------------------------------------------- helper functions
\* setControlsDisabled(disabled): the inputs and generateBtn get `disabled`,
\* stopBtn is hidden iff not disabled, generateBtn is hidden iff disabled
setControlsDisabled(disabled) ==
    controlsDisabled' = disabled

\* a clearOutputs that leaves the log of the previous session
clearOutputs_keepsLog ==
    /\ UNCHANGED outputLog
    /\ scriptOutput' = ""
    /\ narrationOutput' = ""
    /\ animationOutput' = ""
    /\ imageComponents' = NoImages
    /\ audioHidden' = TRUE
    /\ downloadScriptHidden' = TRUE
    /\ downloadNarrationHidden' = TRUE

\* a clearOutputs that empties the texts but leaves the download buttons
clearOutputs_keepsButtons ==
    /\ outputLog' = <<>>
    /\ scriptOutput' = ""
    /\ narrationOutput' = ""
    /\ animationOutput' = ""
    /\ imageComponents' = NoImages
    /\ audioHidden' = TRUE
    /\ UNCHANGED << downloadScriptHidden, downloadNarrationHidden >>

clearOutputs ==
    /\ outputLog' = <<>>
    /\ scriptOutput' = ""
    /\ narrationOutput' = ""
    /\ animationOutput' = ""
    /\ imageComponents' = NoImages
    /\ audioHidden' = TRUE
    /\ downloadScriptHidden' = TRUE
    /\ downloadNarrationHidden' = TRUE

\* new WebSocket(url), with the values the handlers' closure captured
NewSocket(topic, url, pdfPath) ==
    [readyState  |-> "CONNECTING",
     opened      |-> FALSE,      \* the opening handshake has completed
     closeCalled |-> FALSE,      \* close() was called on this object
     nTerm       |-> 0,          \* error/completed events dispatched
     late        |-> FALSE,      \* a frame arrived after close()
     sent        |-> <<>>,       \* frames handed to send() while OPEN
     topic       |-> topic,
     url         |-> url,
     pdf_path    |-> pdfPath]

StartMessage(c) ==
    [type |-> "start", topic |-> ws[c].topic, url |-> ws[c].url,
     pdf_path |-> ws[c].pdf_path]

\* a close() that is recorded but leaves the channel dispatching events
CloseSocket_staysOpen(w) ==
    IF w.readyState \in {"CLOSING", "CLOSED"} THEN w
    ELSE [w EXCEPT !.closeCalled = TRUE]

\* WebSocket.close(): no effect once CLOSING or CLOSED
CloseSocket(w) ==
    IF w.readyState \in {"CLOSING", "CLOSED"} THEN w
    ELSE [w EXCEPT !.readyState = "CLOSING", !.closeCalled = TRUE]

\* the log line with the stage put after the message
LogLine_stageLast(data) ==
    IF data.stage # "" THEN << data.message, " [", data.stage, "]", "\n" >>
    ELSE << data.message, "\n" >>

\* the line the message handler appends to the log
LogLine(data) ==
    IF data.stage # "" THEN << "[", data.stage, "] ", data.message, "\n" >>
    ELSE << data.message, "\n" >>

\* a payload slot that is written even when the field is absent
SlotValue_always(field, current) == field

\* `if (data.x) { element = data.x }`: a present field replaces the slot
SlotValue(field, current) == IF field # "" THEN field ELSE current

\* the image cards appended to those already displayed
RenderImages_append(shown, list) == Images(shown.list \o list)

\* innerHTML is reset to the header, then one card per element in order
RenderImages(shown, list) == Images(list)

\* ------------------------------------------------- Generate click handler
\* the part of the handler after the upload: lines 127-222
StartSession(topic, url, pdfPath) ==
    /\ Len(ws) < MaxChannels
    /\ setControlsDisabled(TRUE)
    /\ loading' = TRUE
    /\ outputSectionHidden' = FALSE
    /\ overlayHidden' = FALSE
    /\ clearOutputs
    /\ ws' = Append(ws, NewSocket(topic, url, pdfPath))
    /\ socket' = Len(ws) + 1
    /\ UNCHANGED << statusText, unhandled, delivered >>

\* the same test on the raw values, without trim()
AllEmpty_untrimmed(topicValue, urlValue, pdfFile) ==
    topicValue = <<>> /\ urlValue = <<>> /\ ~pdfFile

\* the handler's first test, on the values read from the form
AllEmpty(topicValue, urlValue, pdfFile) ==
    Trim(topicValue) = <<>> /\ Trim(urlValue) = <<>> /\ ~pdfFile

\* A click reaches the handler only while generateBtn is not disabled.
GenerateInvalid(topicValue, urlValue, pdfFile) ==
    /\ ~controlsDisabled
    /\ AllEmpty(topicValue, urlValue, pdfFile)
    /\ toast' = ValidationToast
    /\ UNCHANGED << pending, ws, socket, outputs, controlsDisabled,
                    loading, outputSectionHidden, overlayHidden, statusText,
                    unhandled, delivered >>

GenerateUpload(topicValue, urlValue, pdfFile) ==
    /\ ~controlsDisabled
    /\ ~AllEmpty(topicValue, urlValue, pdfFile)
    /\ pdfFile
    /\ Len(pending) < MaxPending
    /\ pending' = Append(pending, [topic |-> Trim(topicValue),
                                   url |-> Trim(urlValue)])
    /\ UNCHANGED << ws, socket, outputs, page, unhandled, delivered >>

GenerateStart(topicValue, urlValue, pdfFile) ==
    /\ ~controlsDisabled
    /\ ~AllEmpty(topicValue, urlValue, pdfFile)
    /\ ~pdfFile
    /\ StartSession(Trim(topicValue), Trim(urlValue), NoPath)
    /\ UNCHANGED << pending, toast >>

GenerateClick(topicValue, urlValue, pdfFile) ==
    \/ GenerateInvalid(topicValue, urlValue, pdfFile)
    \/ GenerateUpload(topicValue, urlValue, pdfFile)
    \/ GenerateStart(topicValue, urlValue, pdfFile)

\* what the upload can answer
UploadOutcomes ==
    { [ok |-> TRUE,  thrown |-> FALSE, path |-> "/uploads/a.pdf", detail |-> ""],
      [ok |-> FALSE, thrown |-> FALSE, path |-> "", detail |-> "too large"],
      [ok |-> FALSE, thrown |-> FALSE, path |-> "", detail |-> ""],
      [ok |-> FALSE, thrown |-> TRUE,  path |-> "", detail |-> "Failed to fetch"] }

RemoveAt(s, i) == SubSeq(s, 1, i - 1) \o SubSeq(s, i + 1, Len(s))

\* a catch block that always shows the fixed text
UploadErrorMessage_generic(r) == UploadFailToast

\* error.message in the catch block
UploadErrorMessage(r) ==
    IF r.thrown THEN r.detail
    ELSE IF r.detail # "" THEN r.detail ELSE UploadFailToast

UploadOk(i, r) ==
    /\ i \in 1 .. Len(pending)
    /\ r.ok
    /\ pending' = RemoveAt(pending, i)
    /\ toast' = UploadOkToast
    /\ StartSession(pending[i].topic, pending[i].url, r.path)

\* the catch block without its return: the handler goes on with pdfPath = null
UploadFailed_noReturn(i, r) ==
    /\ i \in 1 .. Len(pending)
    /\ ~r.ok
    /\ pending' = RemoveAt(pending, i)
    /\ toast' = UploadErrorMessage(r)
    /\ StartSession(pending[i].topic, pending[i].url, NoPath)

UploadFailed(i, r) ==
    /\ i \in 1 .. Len(pending)
    /\ ~r.ok
    /\ pending' = RemoveAt(pending, i)
    /\ toast' = UploadErrorMessage(r)
    /\ UNCHANGED << ws, socket, outputs, controlsDisabled, loading,
                    outputSectionHidden, overlayHidden, statusText,
                    unhandled, delivered >>

\* ---------------------------------------------------- WebSocket callbacks
\* open event on channel c, then socket.onopen.  The handler sends through
\* the variable `socket`, which is the object created last.
WsOpen(c) ==
    /\ c \in Channels
    /\ ws[c].readyState = "CONNECTING"
    /\ toast' = EstablishedToast
    /\ LET opened == [ws EXCEPT ![c].readyState = "OPEN", ![c].opened = TRUE]
       IN  CASE opened[socket].readyState = "CONNECTING" ->
                  \* send() throws InvalidStateError
                  /\ ws' = opened
                  /\ unhandled' = TRUE
             [] opened[socket].readyState = "OPEN" ->
                  /\ ws' = [opened EXCEPT ![socket].sent =
                                Append(@, StartMessage(c))]
                  /\ UNCHANGED unhandled
             [] OTHER ->
                  \* CLOSING or CLOSED: the data is discarded
                  /\ ws' = opened
                  /\ UNCHANGED unhandled
    /\ UNCHANGED << pending, socket, outputs, controlsDisabled, loading,
                    outputSectionHidden, overlayHidden, statusText, delivered >>

\* an overlay hidden by either terminal event
OverlayAfter_anyTerminal(data, hidden) ==
    data.status = "completed" \/ data.status = "error" \/ hidden

\* statusOverlay gets class 'hidden' only in the completed branch
OverlayAfter(data, hidden) ==
    data.status = "completed" \/ hidden

\* the toast left by the message handler, its showToast calls in order
MessageToast(data) ==
    LET known == data.status \in {"progress", "error", "completed"}
        t1 == IF known /\ data.status = "error" THEN data.message ELSE toast
        t2 == IF known /\ data.stage = "Cancelled" THEN StoppedToast ELSE t1
    IN  IF data.status = "completed" /\ data.output_file # ""
        THEN SuccessToast ELSE t2

\* socket.onmessage of channel c for a frame that parses
OnMessage(c, data) ==
    /\ IF data.status \in {"progress", "error", "completed"}
       THEN /\ outputLog' = Append(outputLog, LogLine(data))
            /\ statusText' = data.message
       ELSE UNCHANGED << outputLog, statusText >>
    /\ toast' = MessageToast(data)
    /\ IF IsTerminalEvent(data)
       THEN /\ setControlsDisabled(FALSE)
            /\ loading' = FALSE
            /\ overlayHidden' = OverlayAfter(data, overlayHidden)
       ELSE UNCHANGED << controlsDisabled, loading, overlayHidden >>
    /\ narrationOutput' = SlotValue(data.narration, narrationOutput)
    /\ downloadNarrationHidden' = (data.narration = "" /\ downloadNarrationHidden)
    /\ scriptOutput' = SlotValue(data.script, scriptOutput)
    /\ downloadScriptHidden' = (data.script = "" /\ downloadScriptHidden)
    /\ animationOutput' = SlotValue(data.output_file, animationOutput)
    /\ audioHidden' = (data.output_file # "" \/ audioHidden)
    /\ IF data.image_components.present
       THEN imageComponents' =
                RenderImages(imageComponents, data.image_components.list)
       ELSE UNCHANGED imageComponents

\* message event on channel c: dispatched only while the channel is OPEN
WsMessage(c, data) ==
    /\ c \in Channels
    /\ ws[c].readyState = "OPEN"
    /\ delivered < MaxMsgs
    /\ delivered' = delivered + 1
    /\ ws' = [ws EXCEPT ![c].nTerm = IF IsTerminalEvent(data) THEN @ + 1 ELSE @]
    /\ OnMessage(c, data)
    /\ UNCHANGED << pending, socket, outputSectionHidden, unhandled >>

\* message event on channel c for a frame that parses but has no status of
\* the protocol: the handler has no check and runs as for any frame
WsInvalid(c) ==
    /\ c \in Channels
    /\ ws[c].readyState = "OPEN"
    /\ delivered < MaxMsgs
    /\ delivered' = delivered + 1
    /\ OnMessage(c, InvalidEvent)
    /\ UNCHANGED << pending, ws, socket, outputSectionHidden, unhandled >>

\* a frame that is not JSON: JSON.parse throws in the first line
WsMalformed(c) ==
    /\ c \in Channels
    /\ ws[c].readyState = "OPEN"
    /\ delivered < MaxMsgs
    /\ delivered' = delivered + 1
    /\ unhandled' = TRUE
    /\ UNCHANGED << pending, ws, socket, outputs, page >>

\* a frame that reaches the browser after close() was called: no event
WsLate(c) ==
    /\ c \in Channels
    /\ ws[c].readyState = "CLOSING"
    /\ ws[c].opened
    /\ delivered < MaxMsgs
    /\ delivered' = delivered + 1
    /\ ws' = [ws EXCEPT ![c].late = TRUE]
    /\ UNCHANGED << pending, socket, outputs, page, unhandled >>

\* an onclose that forgets to re-enable the controls
OnClose_keepsDisabled ==
    /\ UNCHANGED controlsDisabled
    /\ loading' = FALSE

\* socket.onclose
OnClose ==
    /\ setControlsDisabled(FALSE)
    /\ loading' = FALSE

\* the connection of an established channel ends cleanly: close event
WsClose(c) ==
    /\ c \in Channels
    /\ ws[c].opened
    /\ ws[c].readyState \in {"OPEN", "CLOSING"}
    /\ ws' = [ws EXCEPT ![c].readyState = "CLOSED"]
    /\ OnClose
    /\ UNCHANGED << pending, socket, outputs, outputSectionHidden,
                    overlayHidden, statusText, toast, unhandled, delivered >>

\* the connection fails: error event, then close event, in one task
WsFail(c) ==
    /\ c \in Channels
    /\ ws[c].readyState \in {"CONNECTING", "OPEN", "CLOSING"}
    /\ ws' = [ws EXCEPT ![c].readyState = "CLOSED"]
    /\ toast' = ConnErrorToast
    /\ OnClose
    /\ UNCHANGED << pending, socket, outputs, outputSectionHidden,
                    overlayHidden, statusText, unhandled, delivered >>

\* ----------------------------------------------------- Stop click handler
StopClick ==
    /\ socket # 0
    /\ ws' = [ws EXCEPT ![socket] = CloseSocket(@)]
    /\ toast' = StoppingToast
    /\ UNCHANGED << pending, socket, outputs, controlsDisabled, loading,
                    outputSectionHidden, overlayHidden, statusText,
                    unhandled, delivered >>

\* ----------------------------------------------------------- specification
Next ==
    \/ \E f \in FormValues : GenerateInvalid(f.topic, f.url, f.pdf)
    \/ \E f \in FormValues : GenerateUpload(f.topic, f.url, f.pdf)
    \/ \E f \in FormValues : GenerateStart(f.topic, f.url, f.pdf)
    \/ \E i \in 1 .. MaxPending, r \in UploadOutcomes : UploadOk(i, r)
    \/ \E i \in 1 .. MaxPending, r \in UploadOutcomes : UploadFailed(i, r)
    \/ \E c \in 1 .. MaxChannels : WsOpen(c)
    \/ \E c \in 1 .. MaxChannels, data \in Events : WsMessage(c, data)
    \/ \E c \in 1 .. MaxChannels : WsInvalid(c)
    \/ \E c \in 1 .. MaxChannels : WsMalformed(c)
    \/ \E c \in 1 .. MaxChannels : WsLate(c)
    \/ \E c \in 1 .. MaxChannels : WsClose(c)
    \/ \E c \in 1 .. MaxChannels : WsFail(c)
    \/ StopClick

Spec == Init /\ [][Next]_vars

\* ------------------------------------------------------- session status
\* The script has no status field.  The status of the session is what the
\* page and the current channel show: controls are disabled from the start
\* of a session until a terminal event, close or error; only a completed
\* event hides the overlay; the Stop handler leaves its own toast.
TerminalStatuses == {"Completed", "Errored", "Cancelled"}

Status ==
    IF socket = 0 THEN "Idle"
    ELSE IF controlsDisabled
         THEN IF ws[socket].readyState = "CONNECTING" THEN "Connecting"
              ELSE "Running"
    ELSE IF overlayHidden THEN "Completed"
    ELSE IF toast = StoppingToast THEN "Cancelled"
    ELSE "Errored"

\* a value of a text input that trim() reduces to the empty string
IsBlank(s) == \A i \in 1 .. Len(s) : s[i] = SP

Live(c) == ws[c].readyState \in {"CONNECTING", "OPEN"}

\* ------------------------------------------------------------------ claims

\* C1: at most one channel of the controller is connecting or open at any
\* time (a new channel is created only once every earlier one is closed).
C1_OneTransport ==
    Cardinality({c \in Channels : Live(c)}) <= 1

\* C2: a Generate click with blank topic, blank URL and no PDF ends in the
\* validation message: no upload is started, no channel is created, and the
\* controls and outputs are as before.
C2_ValidationBlocksStart ==
    [][\A f \in FormValues :
          (IsBlank(f.topic) /\ IsBlank(f.url) /\ ~f.pdf
             /\ GenerateClick(f.topic, f.url, f.pdf))
          => /\ toast' = ValidationToast
             /\ UNCHANGED << pending, ws, socket, outputs, controlsDisabled,
                             loading, outputSectionHidden, overlayHidden,
                             statusText >>]_vars

\* C2 witness: the validation message is on the page and nothing was started
C2_Witness ==
    toast = ValidationToast /\ ws = <<>> /\ pending = <<>>

\* C3: when the upload of the PDF fails (non-success answer or thrown
\* fetch), no channel is created, no start message is sent, the outputs are
\* not cleared and the controls stay as they were.
C3_UploadFailureNoSession ==
    [][\A i \in 1 .. MaxPending, r \in UploadOutcomes :
          (~r.ok /\ UploadFailed(i, r))
          => /\ toast' = (IF r.detail # "" THEN r.detail ELSE UploadFailToast)
             /\ UNCHANGED << ws, socket, outputs, controlsDisabled, loading,
                             outputSectionHidden, overlayHidden >>]_vars

\* C3 witness: an upload was refused with "too large" and no session exists
C3_Witness ==
    toast = "too large" /\ ws = <<>> /\ pending = <<>> /\ ~controlsDisabled

\* C4: on the current session, when the first terminal event arrives after
\* any number of progress events, the status becomes Completed for a
\* completed event and Errored for an error event.
C4_FinalStatusMatches ==
    [][\A c \in Channels, d \in Events :
          (c = socket /\ ws[c].nTerm = 0 /\ IsTerminalEvent(d)
             /\ WsMessage(c, d))
          => Status' = (IF d.status = "completed" THEN "Completed"
                        ELSE "Errored")]_vars

\* C5: a channel on which a completed or error event has been processed is
\* no longer open: the controller has closed it.
C5_ClosedAfterTerminal ==
    \A c \in Channels :
        ws[c].nTerm > 0 => ws[c].readyState \in {"CLOSING", "CLOSED"}

\* C6: a second terminal event on a channel changes neither the status nor
\* the status text, the log or any displayed artifact.
C6_SecondTerminalNoOp ==
    [][\A c \in Channels, d \in Events :
          (ws[c].nTerm >= 1 /\ IsTerminalEvent(d) /\ WsMessage(c, d))
          => /\ Status' = Status
             /\ UNCHANGED << statusText, outputs >>]_vars

\* C7: once the status of the session is terminal, an inbound event of the
\* session neither changes the status nor any payload slot (script,
\* narration, audio, output file, image list).
C7_TerminalIsFinal ==
    [][\A d \in Events :
          (socket # 0 /\ Status \in TerminalStatuses /\ WsMessage(socket, d))
          => /\ Status' = Status
             /\ UNCHANGED slots]_vars

\* C8: a Stop click while the session is Running and no terminal event was
\* processed sends a stop message on the channel and closes the channel.
C8_StopSendsStop ==
    [][(socket # 0 /\ Status = "Running" /\ ws[socket].readyState = "OPEN"
          /\ ws[socket].nTerm = 0 /\ StopClick)
          => /\ Len(ws'[socket].sent) = Len(ws[socket].sent) + 1
             /\ ws'[socket].sent[Len(ws'[socket].sent)].type = "stop"
             /\ ws'[socket].readyState \in {"CLOSING", "CLOSED"}]_vars

\* C9: a Stop click after a completed or error event of the session was
\* processed has no observable effect: nothing is sent, the channel, the
\* status and the notification are as before.
C9_FirstSignalWins ==
    [][(socket # 0 /\ ws[socket].nTerm > 0 /\ StopClick)
          => /\ Status' = Status
             /\ UNCHANGED << ws, toast >>]_vars

\* C10: once the user has stopped a channel, no event of that channel is
\* dispatched any more, and a frame that still arrives on it changes neither
\* the status nor the status text, the log or the displayed artifacts.
C10_LateEventIgnored ==
    [][\A c \in Channels :
          ws[c].closeCalled
          => /\ \A d \in Events : ~WsMessage(c, d)
             /\ ~WsInvalid(c)
             /\ ~WsMalformed(c)
             /\ (WsLate(c) => /\ Status' = Status
                              /\ UNCHANGED << statusText, outputs, page >>)]_vars

\* C10 witness: a frame arrived on a channel after the user stopped it, and
\* after the close event the page shows the cancel
C10_Witness ==
    \E c \in Channels :
        /\ c = socket
        /\ ws[c].closeCalled /\ ws[c].late /\ ws[c].readyState = "CLOSED"
        /\ Status = "Cancelled"

\* C11: when the channel of the current session closes or fails before a
\* terminal event was processed (and the user did not stop it), the status
\* becomes Errored and the generic connectivity message is shown.
C11_FaultGivesErrored ==
    [][\A c \in Channels :
          (c = socket /\ ws[c].nTerm = 0 /\ ~ws[c].closeCalled
             /\ (WsClose(c) \/ WsFail(c)))
          => /\ Status' = "Errored"
             /\ toast' = ConnErrorToast]_vars

\* C12: whenever the current session is over (a terminal event was
\* processed on its channel, or its channel is closed after a close, an
\* error or a stop), the inputs and the Generate button are enabled.
C12_ControlsReenabled ==
    (socket # 0 /\ (ws[socket].nTerm > 0 \/ ws[socket].readyState = "CLOSED"))
        => ~controlsDisabled

\* C12 witness: the user stopped the session, its channel has closed and the
\* controls are enabled again
C12_Witness ==
    /\ socket # 0
    /\ ws[socket].closeCalled
    /\ ws[socket].readyState = "CLOSED"
    /\ ws[socket].nTerm = 0
    /\ ~controlsDisabled

\* C13: a frame that does not parse, or parses but is no event of the
\* protocol, changes nothing on the page, leaves the channel open and the
\* status as it was.
C13_MalformedIgnored ==
    [][\A c \in Channels :
          (WsMalformed(c) \/ WsInvalid(c))
          => /\ UNCHANGED << outputs, page >>
             /\ ws'[c].readyState = "OPEN"
             /\ Status' = Status]_vars

\* C14: after an event that carries image_components (an empty list
\* included) the displayed list is exactly the list of the event, in its
\* order, whatever was displayed before.
C14_ImagesReplaced ==
    [][\A c \in Channels, d \in Events :
          (d.image_components.present /\ WsMessage(c, d))
          => /\ imageComponents'.present
             /\ imageComponents'.list = d.image_components.list]_vars

\* C14 witness: two images were displayed and an event with an empty list
\* has replaced them
C14_Witness ==
    /\ imageComponents = Images(<<>>)
    /\ Len(outputLog) = 2
    /\ outputLog[1] = outputLog[2]
    /\ outputLog[1] = << "[", "Images", "] ", "Images ready", "\n" >>

\* the value a slot has after an event whose field is `field`
Overwritten(field, current) == IF field = "" THEN current ELSE field

C16_OneStartPerSession ==
    \A c \in Channels :
        ws[c].sent = (IF ws[c].opened THEN << StartMessage(c) >> ELSE <<>>)

\* C17: a Stop click when no session is active (no channel yet, or the
\* channel of the session already closed) changes nothing.
C17_StopIdleNoOp ==
    [][((socket = 0 \/ ws[socket].readyState = "CLOSED") /\ StopClick)
          => UNCHANGED vars]_vars

\* C18: a Generate click with a PDF issues one upload request; when the
\* answer is a non-success response carrying a detail, that request is over,
\* none is issued in its place, and the message shown is that detail.
C18_UploadSingleShotVerbatim ==
    [][/\ \A f \in FormValues :
             GenerateUpload(f.topic, f.url, f.pdf)
             => Len(pending') = Len(pending) + 1
       /\ \A i \in 1 .. MaxPending, r \in UploadOutcomes :
             (~r.ok /\ ~r.thrown /\ r.detail # "" /\ UploadFailed(i, r))
             => /\ toast' = r.detail
                /\ Len(pending') = Len(pending) - 1]_vars

\* C18 witness: the refusal "too large" is shown and no request is in flight
C18_Witness ==
    toast = "too large" /\ pending = <<>>

\* the log line of an event: "[stage] message", the prefix left out when the
\* event has no stage
ExpectedLine(d) ==
    IF d.stage = "" THEN << d.message, "\n" >>
    ELSE << "[", d.stage, "] ", d.message, "\n" >>

\* C19: every valid event adds its line at the end of the log and its
\* message becomes the status text, so the log is the lines of the events in
\* arrival order and the status text is the message of the last one.
C19_ArrivalOrder ==
    [][\A c \in Channels, d \in Events :
          WsMessage(c, d)
          => /\ outputLog' = outputLog \o << ExpectedLine(d) >>
             /\ statusText' = d.message]_vars

\* C19 witness: a progress event with a stage, then the completed event
C19_Witness ==
    /\ outputLog = << << "[", "Scripting", "] ", "Writing narration", "\n" >>,
                      << "Done", "\n" >> >>
    /\ statusText = "Done"

\* C20: no handler ever ends in an uncaught exception.
C20_NoUnhandledFault ==
    ~unhandled

\* C21: while the current session is in flight (its channel connecting or
\* open, no terminal event processed on it), the controls stay disabled,
\* whatever happens on the channel of an earlier session.
C21_InFlightStaysDisabled ==
    (socket # 0 /\ Live(socket) /\ ws[socket].nTerm = 0) => controlsDisabled

\* C22: a frame dispatched on the channel of an earlier session changes
\* neither the log nor the status text nor a displayed artifact.
C22_StaleChannelSilent ==
    [][\A c \in Channels :
          (c # socket /\ (WsInvalid(c) \/ \E d \in Events : WsMessage(c, d)))
          => UNCHANGED << outputs, statusText >>]_vars

\* C23: the open event of a channel sends nothing through another channel,
\* and no channel is ever handed more than one start message.
C23_StartOnOwnChannel ==
    [][\A c \in Channels :
          WsOpen(c)
          => /\ \A k \in Channels \ {c} : ws'[k].sent = ws[k].sent
             /\ Len(ws'[c].sent) <= 1]_vars

\* C24: the step that starts a session (it creates the channel) leaves the
\* log, script, narration, animation output and image list empty and the
\* audio player and both download buttons hidden.
C24_StartClearsOutputs ==
    [][Len(ws') = Len(ws) + 1
          => /\ outputLog' = <<>>
             /\ scriptOutput' = "" /\ narrationOutput' = ""
             /\ animationOutput' = ""
             /\ imageComponents' = NoImages
             /\ audioHidden'
             /\ downloadScriptHidden' /\ downloadNarrationHidden']_vars

\* C24 witness: a first session has shown events, a second one has just
\* started and nothing of the first is displayed
C24_Witness ==
    /\ Len(ws) = 2 /\ socket = 2
    /\ ws[2].readyState = "CONNECTING"
    /\ ws[1].nTerm = 1
    /\ statusText = "Done"
    /\ outputLog = <<>>
    /\ animationOutput = ""

\* C25: a download button is visible only while its text is non-empty, and
\* an event without script (narration) changes neither the script
\* (narration) text nor its button.
C25_DownloadNeedsText ==
    /\ [](/\ ~downloadScriptHidden => scriptOutput # ""
          /\ ~downloadNarrationHidden => narrationOutput # "")
    /\ [][\A c \in Channels, d \in Events \cup {InvalidEvent} :
             (WsMessage(c, d) \/ (d = InvalidEvent /\ WsInvalid(c)))
             => /\ d.script = ""
                   => UNCHANGED << scriptOutput, downloadScriptHidden >>
                /\ d.narration = ""
                   => UNCHANGED << narrationOutput,
                                   downloadNarrationHidden >>]_vars

\* C25 witness: a script is displayed with its button, no narration and no
\* narration button
C25_Witness ==
    /\ scriptOutput = "s1" /\ ~downloadScriptHidden
    /\ narrationOutput = "" /\ downloadNarrationHidden

\* C26: the overlay becomes hidden only in a step that processes a completed
\* event; an error event, a close, a connection error or a Stop click leave
\* it as it was.
C26_OverlayOnlyByCompleted ==
    [][(overlayHidden' /\ ~overlayHidden)
          => \E c \in Channels, d \in Events :
                d.status = "completed" /\ WsMessage(c, d)]_vars

\* C26 witness: the session ended with an error event, the controls are
\* enabled again and the overlay is still shown
C26_Witness ==
    /\ socket # 0
    /\ ws[socket].nTerm = 1
    /\ statusText = "Failed"
    /\ ~controlsDisabled
    /\ ~overlayHidden

=============================================================================
